---- MODULE Spec2Model ----
(***************************************************************************)
(* Client-side real-time seat-availability layer of tiki-taka-frontend:    *)
(* the module-level connection singleton of services/websocket.ts and the  *)
(* correlated join / seat-status requests that run on it.                  *)
(*                                                                         *)
(* A connection is a socket.io-client Socket.  What the library does is    *)
(* modelled by its documented behaviour: emit() while not connected is     *)
(* kept in the socket's sendBuffer and flushed on connect; emit(ev) on the *)
(* receiving side calls a snapshot of the listeners registered for ev;     *)
(* once(ev, fn) removes the listener before fn runs; off(ev, fn) removes   *)
(* the listener registered by on(ev, fn) or once(ev, fn).                  *)
(* The console.log-only handlers of lines 60-74 and 83-85 keep no state.   *)
(*                                                                         *)
(* The specifications share the variables:                                 *)
(*   Spec           the exported operations of services/websocket.ts       *)
(*   SpecSession    getSessionId and the storage entry it keeps            *)
(*   SpecHook       hooks/useEventWebSocket.ts mounted on the service      *)
(*   SpecQuery      getSeatStatus of a mounted hook                        *)
(*   SpecRooms      SpecHook with the backend's room memberships recorded  *)
(*   SpecHeartbeat  the heartbeat timers of initializeWebSocket            *)
(*   SpecApi        the interceptors of services/api.ts                    *)
(*   SpecPage       the broadcast handlers of the hook and of              *)
(*                  pages/EventDetailsPage.tsx applied to the page's state *)
(*   SpecHold       selecting, holding, releasing and buying seats on the  *)
(*                  page                                                   *)
(* Each leaves the variables of the others as Init set them.               *)
(***************************************************************************)
EXTENDS Integers, Sequences, FiniteSets, TLC

\* ------------------------------------------------------------- bounds
\* connections constructed plus join/seat-status calls made, in one run
MaxObjects == 3
GrainMs == 5000
\* readings of the millisecond clock that getSessionId can see
MaxNow == 2
\* entries of the updates list of one seat_availability_update
MaxUpdates == 2
\* largest viewer count the backend reports
MaxViewers == 1
\* getSeatStatus calls of one hook instance
MaxQueries == 2
\* pings the backend has received on one connection and not answered
MaxPings == 2

\* ---------------------------------------------------------- constants
JoinTimeoutMs == 5000
SeatStatusTimeoutMs == 10000

JoinTimeoutMessage == "Join event timeout"
SeatStatusTimeoutMessage == "Seat status request timeout"

EventIds == {"evt-1", "evt-2"}
ServerMessages == {"Event not found", "Not authorized"}

VARIABLES
  socket,      \* the module singleton: 0 is null, else an index of sockets
  sockets,     \* every connection constructed so far, in construction order
  wire,        \* wire[s]: what the backend received on s and has not handled
  heartbeats,  \* number of setInterval heartbeat timers running
  sessionId,   \* localStorage 'tiki-taka-session-id': <<>> is absent
  returned,    \* the last initializeWebSocket() call of the page: the connection
               \* it returned (0 before the first call) and whether it
               \* constructed one
  requests,    \* every joinEventRoom/requestSeatStatus call made so far
  session,     \* what getSessionId reads besides storage (Date.now(), the
               \* next Math.random() suffix) and what its callers saw
  hook,        \* the mounted useEventWebSocket instance
  page,        \* the state of EventDetailsPage that broadcasts act on
  beat,        \* the current 30 s window of the heartbeat timers
  api,         \* services/api.ts: the stored tokens and the last exchange
  rooms        \* what the backend did with the join_events of the hook

vars == <<socket, sockets, wire, heartbeats, sessionId, returned, requests,
          session, hook, page, beat, api, rooms>>

Min(a, b) == IF a <= b THEN a ELSE b

\* ------------------------------------------------ the emitter of a socket
\* A listener is <<event name, r>>: the closure of call r registered for it.
Once(callbacks, ev, r) == callbacks \cup {<<ev, r>>}

Off(callbacks, ev, r) == callbacks \ {<<ev, r>>}

Listening(s, ev) == {r \in DOMAIN requests : <<ev, r>> \in sockets[s].callbacks}

\* An emit that is lost unless the socket is connected.
EmitUnbuffered(sock, wr, s, msg) ==
  IF sock[s].status = "connected"
    THEN <<sock, [wr EXCEPT ![s] = Append(@, msg)]>>
    ELSE <<sock, wr>>

\* socket.emit on the client: sent when connected, buffered otherwise.
Emit(sock, wr, s, msg) ==
  IF sock[s].status = "connected"
    THEN <<sock, [wr EXCEPT ![s] = Append(@, msg)]>>
    ELSE <<[sock EXCEPT ![s].sendBuffer = Append(@, msg)], wr>>

\* What the backend answers: leave_event and ping get no answer the client
\* keeps state for.
IsRequest(msg) == msg.type \in {"join_event", "request_seat_status"}

Remove(seq, i) == SubSeq(seq, 1, i - 1) \o SubSeq(seq, i + 1, Len(seq))

\* ------------------------------------------------------- getSessionId
Suffixes == {"k3x9", "p07q"}

\* `session_${Date.now()}_${Math.random().toString(36).substring(7)}`
GenerateSessionId(now, suffix) == <<"session", now, suffix>>

\* The storage entry ignored: every call generates.
GetSessionIdRegenerates == GenerateSessionId(session.now, session.suffix)

GetSessionId ==
  IF sessionId = <<>>
    THEN GenerateSessionId(session.now, session.suffix)
    ELSE sessionId

\* -------------------------------------------------- initializeWebSocket
\* The test of line 40 left out: every call constructs.
LiveConnectionUnchecked == FALSE

LiveConnection == socket # 0 /\ sockets[socket].status = "connected"

NewSocket == [status |-> "connecting", callbacks |-> {}, sendBuffer |-> <<>>]

InitializeReturn == IF LiveConnection THEN socket ELSE Len(sockets) + 1

SocketsAfterInitialize ==
  IF LiveConnection THEN sockets ELSE Append(sockets, NewSocket)

WireAfterInitialize == IF LiveConnection THEN wire ELSE Append(wire, <<>>)

HeartbeatsAfterInitialize ==
  IF LiveConnection THEN heartbeats ELSE heartbeats + 1

SessionAfterInitialize == IF LiveConnection THEN sessionId ELSE GetSessionId

Objects == Len(sockets) + Len(requests)

CanInitialize == LiveConnection \/ Objects < MaxObjects

InitializeWebSocket ==
  /\ CanInitialize
  /\ socket' = InitializeReturn
  /\ sockets' = SocketsAfterInitialize
  /\ wire' = WireAfterInitialize
  /\ heartbeats' = HeartbeatsAfterInitialize
  /\ sessionId' = SessionAfterInitialize
  /\ returned' = [sock |-> InitializeReturn,
                  constructed |-> Len(SocketsAfterInitialize) > Len(sockets)]
  /\ UNCHANGED requests

\* ------------------------------------------------------------ getSocket
NoUsableSocket == socket = 0 \/ sockets[socket].status # "connected"

GetSocketReturn == IF NoUsableSocket THEN InitializeReturn ELSE socket

SocketsAfterGet == IF NoUsableSocket THEN SocketsAfterInitialize ELSE sockets

WireAfterGet == IF NoUsableSocket THEN WireAfterInitialize ELSE wire

HeartbeatsAfterGet ==
  IF NoUsableSocket THEN HeartbeatsAfterInitialize ELSE heartbeats

SessionAfterGet == IF NoUsableSocket THEN SessionAfterInitialize ELSE sessionId

CanGet == ~NoUsableSocket \/ CanInitialize

GetSocket ==
  /\ CanGet
  /\ socket' = GetSocketReturn
  /\ sockets' = SocketsAfterGet
  /\ wire' = WireAfterGet
  /\ heartbeats' = HeartbeatsAfterGet
  /\ sessionId' = SessionAfterGet
  /\ UNCHANGED <<returned, requests>>

\* ---------------------------------------------------- disconnectWebSocket
SocketsAfterDisconnect ==
  IF socket # 0 THEN [sockets EXCEPT ![socket].status = "closed"] ELSE sockets

\* Line 106 left out: the torn-down connection stays the singleton.
SingletonKeptAfterDisconnect == socket

SingletonAfterDisconnect == IF socket # 0 THEN 0 ELSE socket

DisconnectWebSocket ==
  /\ sockets' = SocketsAfterDisconnect
  /\ wire' = IF socket # 0 THEN [wire EXCEPT ![socket] = <<>>] ELSE wire
  /\ socket' = SingletonAfterDisconnect
  /\ UNCHANGED <<heartbeats, sessionId, returned, requests>>

\* ------------------------------------------- promises and request timers
\* Both calls armed with the join's delay.
TimeoutSame(kind) == JoinTimeoutMs

Timeout(kind) == IF kind = "join" THEN JoinTimeoutMs ELSE SeatStatusTimeoutMs

\* Milliseconds until the setTimeout of the call fires.
Remaining(req) == Timeout(req.kind) - req.elapsed

NewRequest(kind, eventId, sock) ==
  [kind |-> kind, eventId |-> eventId, sock |-> sock,
   state |-> "pending", value |-> "none",
   armed |-> TRUE, elapsed |-> 0,
   okRuns |-> 0, errRuns |-> 0]

\* resolve()/reject() of a Promise: the first call settles it, later calls
\* change nothing.
Settle(req, state, value) ==
  IF req.state = "pending"
    THEN [req EXCEPT !.state = state, !.value = value]
    ELSE req

\* --------------------------------------------------------- joinEventRoom
OnJoined(callbacks, r, req) ==
  <<Off(Off(callbacks, "joined_event", r), "error", r),
    Settle([req EXCEPT !.okRuns = @ + 1], "resolved", "void")>>

\* The server's message replaced by a text of the client's own.
OnJoinErrorGeneric(callbacks, r, req, error) ==
  <<Off(Off(callbacks, "joined_event", r), "error", r),
    Settle([req EXCEPT !.errRuns = @ + 1], "rejected", "Failed to join event room")>>

OnJoinError(callbacks, r, req, error) ==
  <<Off(Off(callbacks, "joined_event", r), "error", r),
    Settle([req EXCEPT !.errRuns = @ + 1], "rejected", error.message)>>

\* Line 139 left out: the timer removes the listeners and rejects nothing.
JoinTimedOutSilent(callbacks, r, req) ==
  <<Off(Off(callbacks, "joined_event", r), "error", r),
    [req EXCEPT !.armed = FALSE]>>

JoinTimedOut(callbacks, r, req) ==
  <<Off(Off(callbacks, "joined_event", r), "error", r),
    Settle([req EXCEPT !.armed = FALSE], "rejected", JoinTimeoutMessage)>>

JoinListeners(callbacks, r) ==
  Once(Once(callbacks, "joined_event", r), "error", r)

\* ----------------------------------------------------- requestSeatStatus
\* Line 162 left out: the error listener outlives the response.
OnResponseKeepsError(callbacks, r, req, data) ==
  <<Off(callbacks, "seat_status_response", r),
    Settle([req EXCEPT !.okRuns = @ + 1], "resolved", data.seats)>>

OnResponse(callbacks, r, req, data) ==
  <<Off(Off(callbacks, "seat_status_response", r), "error", r),
    Settle([req EXCEPT !.okRuns = @ + 1], "resolved", data.seats)>>

OnStatusError(callbacks, r, req, error) ==
  <<Off(Off(callbacks, "seat_status_response", r), "error", r),
    Settle([req EXCEPT !.errRuns = @ + 1], "rejected", error.message)>>

\* off(event) without the function: every listener of both events goes.
StatusTimedOutOffAll(callbacks, r, req) ==
  <<{cb \in callbacks : cb[1] \notin {"seat_status_response", "error"}},
    Settle([req EXCEPT !.armed = FALSE], "rejected", SeatStatusTimeoutMessage)>>

StatusTimedOut(callbacks, r, req) ==
  <<Off(Off(callbacks, "seat_status_response", r), "error", r),
    Settle([req EXCEPT !.armed = FALSE], "rejected", SeatStatusTimeoutMessage)>>

StatusListeners(callbacks, r) ==
  Once(Once(callbacks, "seat_status_response", r), "error", r)

\* The body shared by both calls: getSocket, register, emit, arm the timer.
Call(kind, eventId) ==
  LET sock == GetSocketReturn
      r == Len(requests) + 1
      msg == [type |-> IF kind = "join" THEN "join_event" ELSE "request_seat_status",
              eventId |-> eventId]
      registered == [SocketsAfterGet EXCEPT ![sock].callbacks =
                       IF kind = "join" THEN JoinListeners(@, r)
                                        ELSE StatusListeners(@, r)]
      emitted == Emit(registered, WireAfterGet, sock, msg)
  IN /\ CanGet
     /\ Len(SocketsAfterGet) + Len(requests) < MaxObjects
     /\ socket' = sock
     /\ sockets' = emitted[1]
     /\ wire' = emitted[2]
     /\ heartbeats' = HeartbeatsAfterGet
     /\ sessionId' = SessionAfterGet
     /\ requests' = Append(requests, NewRequest(kind, eventId, sock))
     /\ UNCHANGED returned

JoinEventRoom(eventId) == Call("join", eventId)

RequestSeatStatus(eventId) == Call("status", eventId)

\* --------------------------------------------------------- leaveEventRoom
LeaveEventRoom(eventId) ==
  LET sock == GetSocketReturn
      emitted == Emit(SocketsAfterGet, WireAfterGet, sock,
                      [type |-> "leave_event", eventId |-> eventId])
  IN /\ CanGet
     /\ socket' = sock
     /\ sockets' = emitted[1]
     /\ wire' = [s \in DOMAIN emitted[2] |-> SelectSeq(emitted[2][s], IsRequest)]
     /\ heartbeats' = HeartbeatsAfterGet
     /\ sessionId' = SessionAfterGet
     /\ UNCHANGED <<returned, requests>>

\* ----------------------------------------------- inbound events of a socket
Handle(callbacks, r, req, ev, payload) ==
  CASE ev = "joined_event" -> OnJoined(callbacks, r, req)
    [] ev = "seat_status_response" -> OnResponse(callbacks, r, req, payload)
    [] ev = "error" /\ req.kind = "join" -> OnJoinError(callbacks, r, req, payload)
    [] OTHER -> OnStatusError(callbacks, r, req, payload)

SetMin(S) == CHOOSE x \in S : \A y \in S : x <= y

\* Emitter.emit: the listeners registered when the event arrives run in
\* registration order; a once-listener is removed before its function runs.
RECURSIVE RunListeners(_, _, _, _, _)
RunListeners(todo, callbacks, reqs, ev, payload) ==
  IF todo = {} THEN <<callbacks, reqs>>
  ELSE LET r == SetMin(todo)
           res == Handle(Off(callbacks, ev, r), r, reqs[r], ev, payload)
       IN RunListeners(todo \ {r}, res[1], [reqs EXCEPT ![r] = res[2]], ev, payload)

Deliver(s, ev, payload) ==
  LET res == RunListeners(Listening(s, ev), sockets[s].callbacks, requests, ev, payload)
  IN /\ sockets' = [sockets EXCEPT ![s].callbacks = res[1]]
     /\ requests' = res[2]

\* ------------------------------------------------------------ the backend
\* The backend acknowledges a request it received.
ServerAck(s, i) ==
  /\ sockets[s].status = "connected"
  /\ IsRequest(wire[s][i])
  /\ wire' = [wire EXCEPT ![s] = Remove(@, i)]
  /\ IF wire[s][i].type = "join_event"
       THEN Deliver(s, "joined_event", [eventId |-> wire[s][i].eventId])
       ELSE Deliver(s, "seat_status_response",
                    [eventId |-> wire[s][i].eventId, seats |-> wire[s][i].eventId])
  /\ UNCHANGED <<socket, heartbeats, sessionId, returned>>

\* The backend refuses a request it received.
ServerError(s, i, message) ==
  /\ sockets[s].status = "connected"
  /\ IsRequest(wire[s][i])
  /\ wire' = [wire EXCEPT ![s] = Remove(@, i)]
  /\ Deliver(s, "error", [message |-> message])
  /\ UNCHANGED <<socket, heartbeats, sessionId, returned>>

\* ---------------------------------------------------------- the transport
TransportConnect(s) ==
  /\ sockets[s].status = "connecting"
  /\ sockets' = [sockets EXCEPT ![s].status = "connected", ![s].sendBuffer = <<>>]
  /\ wire' = [wire EXCEPT ![s] = @ \o SelectSeq(sockets[s].sendBuffer, IsRequest)]
  /\ UNCHANGED <<socket, heartbeats, sessionId, returned, requests>>

TransportDisconnect(s) ==
  /\ sockets[s].status = "connected"
  /\ sockets' = [sockets EXCEPT ![s].status = "connecting"]
  /\ wire' = [wire EXCEPT ![s] = <<>>]
  /\ UNCHANGED <<socket, heartbeats, sessionId, returned, requests>>

\* ------------------------------------------------------------------ time
Armed == {r \in DOMAIN requests : requests[r].armed}

Due == {r \in Armed : Remaining(requests[r]) <= 0}

\* Time passes, by at most GrainMs and never past a timer that is due.
Tick ==
  /\ Armed # {}
  /\ Due = {}
  /\ LET d == Min(GrainMs, SetMin({Remaining(requests[r]) : r \in Armed}))
     IN requests' = [r \in DOMAIN requests |->
                       IF requests[r].armed
                         THEN [requests[r] EXCEPT !.elapsed = @ + d]
                         ELSE requests[r]]
  /\ UNCHANGED <<socket, sockets, wire, heartbeats, sessionId, returned>>

TimerFire(r) ==
  /\ r \in Due
  /\ LET s == requests[r].sock
         res == IF requests[r].kind = "join"
                  THEN JoinTimedOut(sockets[s].callbacks, r, requests[r])
                  ELSE StatusTimedOut(sockets[s].callbacks, r, requests[r])
     IN /\ sockets' = [sockets EXCEPT ![s].callbacks = res[1]]
        /\ requests' = [requests EXCEPT ![r] = res[2]]
  /\ UNCHANGED <<socket, wire, heartbeats, sessionId, returned>>

\* The instances the other specifications start from: nothing generated,
\* no hook mounted, no event loaded.
NoSession == [now |-> 0, suffix |-> "k3x9", returned |-> <<>>, previous |-> <<>>]

NoHook ==
  [mounted |-> FALSE, eventId |-> "null", autoJoin |-> FALSE,
   hasJoined |-> FALSE, connected |-> FALSE, socket |-> 0,
   joins |-> {}, joinedOn |-> 0, cycleJoins |-> 0, leaves |-> <<>>,
   queries |-> <<>>]

NoHold == [id |-> "null", seats |-> {}, expiresAt |-> "null"]

\* event === null: nothing loaded.
NoEvent == [id |-> "null", seatMap |-> <<>>]

NoPage ==
  [eventId |-> "null", event |-> NoEvent, selected |-> {}, hold |-> NoHold,
   viewerCount |-> 0, lastCallback |-> "none",
   holdLoading |-> FALSE, holding |-> {},
   releasing |-> FALSE, released |-> {},
   checkoutLoading |-> FALSE]

\* No timer has fired in the window, no ping was sent in it.
NoBeat == [fired |-> {}, pings |-> 0]

\* Nothing stored, nothing sent.
NoApi == [accessToken |-> "null", refreshToken |-> "null",
          sent |-> <<>>, outcome |-> "none", status |-> 0]

\* No join_event answered, no leave_event seen.
NoRooms == [answered |-> {}, acked |-> {}, leaves |-> <<>>]

others == <<session, hook, page, beat, api, rooms>>

Init ==
  /\ socket = 0
  /\ sockets = <<>>
  /\ wire = <<>>
  /\ heartbeats = 0
  /\ sessionId = <<>>
  /\ returned = [sock |-> 0, constructed |-> FALSE]
  /\ requests = <<>>
  /\ session = NoSession
  /\ hook = NoHook
  /\ page = NoPage
  /\ beat = NoBeat
  /\ api = NoApi
  /\ rooms = NoRooms

Next ==
  \/ InitializeWebSocket /\ UNCHANGED others
  \/ GetSocket /\ UNCHANGED others
  \/ DisconnectWebSocket /\ UNCHANGED others
  \/ \E e \in EventIds : JoinEventRoom(e) /\ UNCHANGED others
  \/ \E e \in EventIds : LeaveEventRoom(e) /\ UNCHANGED others
  \/ \E e \in EventIds : RequestSeatStatus(e) /\ UNCHANGED others
  \/ \E s \in DOMAIN sockets : TransportConnect(s) /\ UNCHANGED others
  \/ \E s \in DOMAIN sockets : TransportDisconnect(s) /\ UNCHANGED others
  \/ \E s \in DOMAIN sockets : \E i \in DOMAIN wire[s] :
       ServerAck(s, i) /\ UNCHANGED others
  \/ \E s \in DOMAIN sockets : \E i \in DOMAIN wire[s] :
       \E m \in ServerMessages : ServerError(s, i, m) /\ UNCHANGED others
  \/ Tick /\ UNCHANGED others
  \/ \E r \in DOMAIN requests : TimerFire(r) /\ UNCHANGED others

Spec == Init /\ [][Next]_vars

\* ============================================================ SpecSession
\* getSessionId() as its callers see it (EventDetailsPage lines 224, 261, 402
\* and initializeWebSocket line 45), with the clock, the random generator and
\* the user clearing the browser's storage as the environment.
service == <<socket, sockets, wire, heartbeats, returned, requests>>

GetSessionIdCall ==
  /\ session' = [session EXCEPT !.returned = GetSessionId]
  /\ sessionId' = GetSessionId
  /\ UNCHANGED <<service, hook, page, beat, api, rooms>>

\* localStorage is cleared; what the entry held is remembered for comparison.
ClearStorage ==
  /\ sessionId # <<>>
  /\ sessionId' = <<>>
  /\ session' = [session EXCEPT !.previous = sessionId]
  /\ UNCHANGED <<service, hook, page, beat, api, rooms>>

\* Date.now() moves on by a millisecond.
ClockAdvance ==
  /\ session.now < MaxNow
  /\ session' = [session EXCEPT !.now = @ + 1]
  /\ UNCHANGED <<service, sessionId, hook, page, beat, api, rooms>>

\* The suffix the next Math.random() call yields.
RandomDraw(suffix) ==
  /\ suffix # session.suffix
  /\ session' = [session EXCEPT !.suffix = suffix]
  /\ UNCHANGED <<service, sessionId, hook, page, beat, api, rooms>>

NextSession ==
  \/ GetSessionIdCall
  \/ ClearStorage
  \/ ClockAdvance
  \/ \E suffix \in Suffixes : RandomDraw(suffix)

SpecSession == Init /\ [][NextSession]_vars

\* =============================================================== SpecHook
\* hooks/useEventWebSocket.ts.  A handler of the hook runs several calls of
\* the service one after the other, so the service is written here once more
\* as functions from its state to its state.
Service ==
  [socket |-> socket, sockets |-> sockets, wire |-> wire,
   heartbeats |-> heartbeats, sessionId |-> sessionId, requests |-> requests]

InitializeIn(st) ==
  IF st.socket # 0 /\ st.sockets[st.socket].status = "connected"
    THEN st
    ELSE [st EXCEPT !.socket = Len(st.sockets) + 1,
                    !.sockets = Append(@, NewSocket),
                    !.wire = Append(@, <<>>),
                    !.heartbeats = @ + 1,
                    !.sessionId = IF @ = <<>>
                                    THEN GenerateSessionId(session.now, session.suffix)
                                    ELSE @]

GetSocketIn(st) ==
  IF st.socket = 0 \/ st.sockets[st.socket].status # "connected"
    THEN InitializeIn(st)
    ELSE st

JoinEventRoomIn(st, eventId) ==
  LET got == GetSocketIn(st)
      r == Len(got.requests) + 1
      registered == [got.sockets EXCEPT ![got.socket].callbacks = JoinListeners(@, r)]
      emitted == Emit(registered, got.wire, got.socket,
                      [type |-> "join_event", eventId |-> eventId])
  IN [got EXCEPT !.sockets = emitted[1],
                 !.wire = emitted[2],
                 !.requests = Append(@, NewRequest("join", eventId, got.socket))]

LeaveEventRoomIn(st, eventId) ==
  LET got == GetSocketIn(st)
      emitted == Emit(got.sockets, got.wire, got.socket,
                      [type |-> "leave_event", eventId |-> eventId])
  IN [got EXCEPT !.sockets = emitted[1],
                 !.wire = [s \in DOMAIN emitted[2] |->
                             SelectSeq(emitted[2][s], IsRequest)]]

RequestSeatStatusIn(st, eventId) ==
  LET got == GetSocketIn(st)
      r == Len(got.requests) + 1
      registered == [got.sockets EXCEPT ![got.socket].callbacks = StatusListeners(@, r)]
      emitted == Emit(registered, got.wire, got.socket,
                      [type |-> "request_seat_status", eventId |-> eventId])
  IN [got EXCEPT !.sockets = emitted[1],
                 !.wire = emitted[2],
                 !.requests = Append(@, NewRequest("status", eventId, got.socket))]

ConnectIn(st, s) ==
  [st EXCEPT !.sockets[s].status = "connected",
             !.sockets[s].sendBuffer = <<>>,
             !.wire[s] = @ \o SelectSeq(st.sockets[s].sendBuffer, IsRequest)]

\* The hook and the service it runs on: w.svc, w.hook.
World == [svc |-> Service, hook |-> hook]

Becomes(w) ==
  /\ socket' = w.svc.socket
  /\ sockets' = w.svc.sockets
  /\ wire' = w.svc.wire
  /\ heartbeats' = w.svc.heartbeats
  /\ sessionId' = w.svc.sessionId
  /\ requests' = w.svc.requests
  /\ hook' = w.hook

WithinBound(w) == Len(w.svc.sockets) + Len(w.svc.requests) <= MaxObjects

\* The guard of lines 48 and 60.
CanJoin(h) == h.eventId # "null" /\ ~h.hasJoined

CanLeave(h) == h.eventId # "null" /\ h.hasJoined

\* joinRoom up to its await: the continuation is AfterSettle.
JoinRoomIn(w) ==
  IF ~CanJoin(w.hook) THEN w
  ELSE LET st == JoinEventRoomIn(w.svc, w.hook.eventId)
       IN [svc |-> st,
           hook |-> [w.hook EXCEPT !.joins = @ \cup {Len(st.requests)},
                                   !.cycleJoins = @ + 1]]

\* Lines 52-55: a resolved joinEventRoom sets the guard, a rejected one is
\* logged.
AfterSettle(h, before, after) ==
  LET done == {r \in h.joins : before[r].state = "pending"
                                /\ after[r].state = "resolved"}
  IN IF done = {} THEN h
     ELSE [h EXCEPT !.hasJoined = TRUE,
                    !.joinedOn = after[CHOOSE r \in done : TRUE].sock]

\* Lines 62-63 and 156-157.
LeaveIn(w) ==
  [svc |-> LeaveEventRoomIn(w.svc, w.hook.eventId),
   hook |-> [w.hook EXCEPT !.hasJoined = FALSE,
                           !.joinedOn = 0,
                           !.cycleJoins = 0,
                           !.leaves = Append(@, w.hook.eventId)]]

\* The effect's cleanup, lines 146-159.
CleanupIn(w) ==
  LET off == [w EXCEPT !.hook.socket = 0]
  IN IF CanLeave(w.hook) THEN LeaveIn(off) ELSE off

\* The effect's body, lines 82-143.
EffectIn(w) ==
  LET got == GetSocketIn(w.svc)
      live == got.sockets[got.socket].status = "connected"
      on == [svc |-> got,
             hook |-> [w.hook EXCEPT !.socket = got.socket, !.connected = live]]
  IN IF live /\ w.hook.autoJoin /\ CanJoin(w.hook) THEN JoinRoomIn(on) ELSE on

\* handleConnect, lines 85-93.
HandleConnectIn(w) ==
  LET up == [w EXCEPT !.hook.connected = TRUE]
  IN IF w.hook.autoJoin /\ CanJoin(w.hook) THEN JoinRoomIn(up) ELSE up

\* handleDisconnect, lines 95-99.
HandleDisconnect(h) ==
  [h EXCEPT !.connected = FALSE, !.hasJoined = FALSE,
            !.joinedOn = 0, !.cycleJoins = 0]

\* The list getSeatStatus returns when it has nothing: [].
EmptySeats == "[]"

\* getSeatStatus up to its await, lines 67-72.  A query is the promise the
\* caller holds: the eventId of the closure, the requestSeatStatus call it
\* awaits (0: none made) and how it settled.
GetSeatStatusIn(w) ==
  IF w.hook.eventId = "null"
    THEN [w EXCEPT !.hook.queries =
            Append(@, [eventId |-> "null", request |-> 0,
                       state |-> "resolved", value |-> EmptySeats])]
    ELSE LET st == RequestSeatStatusIn(w.svc, w.hook.eventId)
         IN [svc |-> st,
             hook |-> [w.hook EXCEPT !.queries =
                         Append(@, [eventId |-> w.hook.eventId,
                                    request |-> Len(st.requests),
                                    state |-> "pending", value |-> "none"])]]

\* The catch of lines 73-76 left out: the rejection reaches the caller.
AfterStatusRethrows(h, after) ==
  [h EXCEPT !.queries =
     [k \in DOMAIN h.queries |->
        LET q == h.queries[k]
        IN IF q.state = "pending" /\ after[q.request].state # "pending"
             THEN [q EXCEPT !.state = after[q.request].state,
                            !.value = after[q.request].value]
             ELSE q]]

\* Lines 72-76: the awaited call's value is returned, its rejection is
\* logged and [] returned.
AfterStatus(h, after) ==
  [h EXCEPT !.queries =
     [k \in DOMAIN h.queries |->
        LET q == h.queries[k]
        IN IF q.state = "pending" /\ after[q.request].state # "pending"
             THEN [q EXCEPT !.state = "resolved",
                            !.value = IF after[q.request].state = "resolved"
                                        THEN after[q.request].value
                                        ELSE EmptySeats]
             ELSE q]]

EventIdOrNull == EventIds \cup {"null"}

\* The page's effect of EventDetailsPage lines 74-76, which runs before the
\* hook's effect.
PageInitialize ==
  /\ ~hook.mounted
  /\ InitializeWebSocket
  /\ UNCHANGED <<session, hook, page, beat, api>>

Mount(eventId, autoJoin) ==
  LET w == EffectIn([svc |-> Service,
                     hook |-> [NoHook EXCEPT !.mounted = TRUE,
                                             !.eventId = eventId,
                                             !.autoJoin = autoJoin]])
  IN /\ ~hook.mounted
     /\ WithinBound(w)
     /\ Becomes(w)
     /\ UNCHANGED <<returned, session, page, beat, api>>

\* The owning component renders again with new callback props (the inline
\* onHoldExpiringSoon and onViewersUpdate of EventDetailsPage lines 151-156):
\* the dependencies of line 160 differ, so cleanup and effect run.
Rerender ==
  LET w == EffectIn(CleanupIn(World))
  IN /\ hook.mounted
     /\ WithinBound(w)
     /\ Becomes(w)
     /\ UNCHANGED <<returned, session, page, beat, api>>

ChangeEventId(eventId) ==
  LET cleaned == CleanupIn(World)
      w == EffectIn([cleaned EXCEPT !.hook.eventId = eventId,
                                    !.hook.cycleJoins = 0])
  IN /\ hook.mounted
     /\ eventId # hook.eventId
     /\ WithinBound(w)
     /\ Becomes(w)
     /\ UNCHANGED <<returned, session, page, beat, api>>

Unmount ==
  LET w == CleanupIn(World)
  IN /\ hook.mounted
     /\ WithinBound(w)
     /\ Becomes([w EXCEPT !.hook = [NoHook EXCEPT !.leaves = w.hook.leaves]])
     /\ UNCHANGED <<returned, session, page, beat, api>>

\* joinRoom() called by the owner of the hook.
JoinRoom ==
  LET w == JoinRoomIn(World)
  IN /\ hook.mounted
     /\ CanJoin(hook)
     /\ WithinBound(w)
     /\ Becomes(w)
     /\ UNCHANGED <<returned, session, page, beat, api>>

\* leaveRoom() called by the owner of the hook.
LeaveRoom ==
  LET w == LeaveIn(World)
  IN /\ hook.mounted
     /\ CanLeave(hook)
     /\ WithinBound(w)
     /\ Becomes(w)
     /\ UNCHANGED <<returned, session, page, beat, api>>

\* 'connect' of connection s: the library flushes, then the hook's listener
\* runs if the hook listens on s.
HookConnect(s) ==
  LET up == [svc |-> ConnectIn(Service, s), hook |-> hook]
      w == IF hook.socket = s THEN HandleConnectIn(up) ELSE up
  IN /\ sockets[s].status = "connecting"
     /\ WithinBound(w)
     /\ Becomes(w)
     /\ UNCHANGED <<returned, session, page, beat, api>>

HookDisconnect(s) ==
  /\ TransportDisconnect(s)
  /\ hook' = IF hook.socket = s THEN HandleDisconnect(hook) ELSE hook
  /\ UNCHANGED <<session, page, beat, api>>

HookServerAck(s, i) ==
  /\ ServerAck(s, i)
  /\ hook' = AfterStatus(AfterSettle(hook, requests, requests'), requests')
  /\ UNCHANGED <<session, page, beat, api>>

HookServerError(s, i, message) ==
  /\ ServerError(s, i, message)
  /\ hook' = AfterStatus(AfterSettle(hook, requests, requests'), requests')
  /\ UNCHANGED <<session, page, beat, api>>

HookTick ==
  /\ Tick
  /\ UNCHANGED <<session, hook, page, beat, api>>

HookTimerFire(r) ==
  /\ TimerFire(r)
  /\ hook' = AfterStatus(AfterSettle(hook, requests, requests'), requests')
  /\ UNCHANGED <<session, page, beat, api>>

NextHook ==
  \/ PageInitialize /\ UNCHANGED rooms
  \/ \E e \in EventIdOrNull : \E a \in BOOLEAN : Mount(e, a) /\ UNCHANGED rooms
  \/ Rerender /\ UNCHANGED rooms
  \/ \E e \in EventIdOrNull : ChangeEventId(e) /\ UNCHANGED rooms
  \/ Unmount /\ UNCHANGED rooms
  \/ JoinRoom /\ UNCHANGED rooms
  \/ LeaveRoom /\ UNCHANGED rooms
  \/ \E s \in DOMAIN sockets : HookConnect(s) /\ UNCHANGED rooms
  \/ \E s \in DOMAIN sockets : HookDisconnect(s) /\ UNCHANGED rooms
  \/ \E s \in DOMAIN sockets : \E i \in DOMAIN wire[s] :
       HookServerAck(s, i) /\ UNCHANGED rooms
  \/ \E s \in DOMAIN sockets : \E i \in DOMAIN wire[s] :
       \E m \in ServerMessages : HookServerError(s, i, m) /\ UNCHANGED rooms
  \/ HookTick /\ UNCHANGED rooms
  \/ \E r \in DOMAIN requests : HookTimerFire(r) /\ UNCHANGED rooms

SpecHook == Init /\ [][NextHook]_vars

\* ============================================================== SpecQuery
\* getSeatStatus() called by the owner of a mounted hook.
GetSeatStatus ==
  LET w == GetSeatStatusIn(World)
  IN /\ hook.mounted
     /\ Len(hook.queries) < MaxQueries
     /\ WithinBound(w)
     /\ Becomes(w)
     /\ UNCHANGED <<returned, session, page, beat, api, rooms>>

NextQuery ==
  \/ PageInitialize /\ UNCHANGED rooms
  \/ \E e \in EventIdOrNull : \E a \in BOOLEAN : Mount(e, a) /\ UNCHANGED rooms
  \/ \E e \in EventIdOrNull : ChangeEventId(e) /\ UNCHANGED rooms
  \/ GetSeatStatus
  \/ \E s \in DOMAIN sockets : HookConnect(s) /\ UNCHANGED rooms
  \/ \E s \in DOMAIN sockets : HookDisconnect(s) /\ UNCHANGED rooms
  \/ \E s \in DOMAIN sockets : \E i \in DOMAIN wire[s] :
       HookServerAck(s, i) /\ UNCHANGED rooms
  \/ \E s \in DOMAIN sockets : \E i \in DOMAIN wire[s] :
       \E m \in ServerMessages : HookServerError(s, i, m) /\ UNCHANGED rooms
  \/ HookTick /\ UNCHANGED rooms
  \/ \E r \in DOMAIN requests : HookTimerFire(r) /\ UNCHANGED rooms

SpecQuery == Init /\ [][NextQuery]_vars

\* ============================================================== SpecRooms
\* SpecHook with the backend's side of the room protocol recorded in rooms:
\*   answered  the join calls whose join_event the backend has acknowledged
\*             or refused, or lost with the connection it was received on
\*   acked     the join calls it acknowledged on a connection that has not
\*             disconnected since: the memberships it holds
\*   leaves    the leave_events the hook emitted, each with the number of
\*             join/seat-status calls made before it
\* join_events of one event on one connection are answered oldest first.
Oldest(s, eventId) ==
  SetMin({r \in DOMAIN requests : /\ requests[r].kind = "join"
                                   /\ requests[r].sock = s
                                   /\ requests[r].eventId = eventId
                                   /\ r \notin rooms.answered})

\* A step of the hook emits at most one leave_event, before any join_event
\* of the same step.
LeavesSeen ==
  IF Len(hook'.leaves) > Len(hook.leaves)
    THEN Append(rooms.leaves, [eventId |-> hook'.leaves[Len(hook'.leaves)],
                               after |-> Len(requests)])
    ELSE rooms.leaves

Client == rooms' = [rooms EXCEPT !.leaves = LeavesSeen]

RoomsServerAck(s, i) ==
  /\ HookServerAck(s, i)
  /\ rooms' = IF wire[s][i].type = "join_event"
                THEN [rooms EXCEPT
                        !.answered = @ \cup {Oldest(s, wire[s][i].eventId)},
                        !.acked = @ \cup {Oldest(s, wire[s][i].eventId)}]
                ELSE rooms

RoomsServerError(s, i, message) ==
  /\ HookServerError(s, i, message)
  /\ rooms' = IF wire[s][i].type = "join_event"
                THEN [rooms EXCEPT
                        !.answered = @ \cup {Oldest(s, wire[s][i].eventId)}]
                ELSE rooms

\* A disconnect ends the memberships of the connection and loses what the
\* backend had not answered on it.
RoomsDisconnect(s) ==
  /\ HookDisconnect(s)
  /\ rooms' = [rooms EXCEPT
                 !.answered = @ \cup {r \in DOMAIN requests : requests[r].sock = s},
                 !.acked = {r \in @ : requests[r].sock # s}]

NextRooms ==
  \/ PageInitialize /\ Client
  \/ \E e \in EventIdOrNull : \E a \in BOOLEAN : Mount(e, a) /\ Client
  \/ Rerender /\ Client
  \/ \E e \in EventIdOrNull : ChangeEventId(e) /\ Client
  \/ Unmount /\ Client
  \/ JoinRoom /\ Client
  \/ LeaveRoom /\ Client
  \/ \E s \in DOMAIN sockets : HookConnect(s) /\ Client
  \/ \E s \in DOMAIN sockets : RoomsDisconnect(s)
  \/ \E s \in DOMAIN sockets : \E i \in DOMAIN wire[s] : RoomsServerAck(s, i)
  \/ \E s \in DOMAIN sockets : \E i \in DOMAIN wire[s] :
       \E m \in ServerMessages : RoomsServerError(s, i, m)
  \/ HookTick /\ Client
  \/ \E r \in DOMAIN requests : HookTimerFire(r) /\ Client

SpecRooms == Init /\ [][NextRooms]_vars

\* ========================================================== SpecHeartbeat
\* The heartbeat of services/websocket.ts lines 76-81.  Every construction of
\* a connection starts a setInterval timer that is never cleared, so timer k
\* is the one started with connection k and heartbeats = Len(sockets).  Time
\* is cut into windows of 30 s: a timer fires once in every window that
\* begins after it was started.
Ping == [type |-> "ping"]

IsPing(msg) == msg.type = "ping"

Timers == 1 .. heartbeats

\* The timers started by a call are due in the next window.
Started(before, after) ==
  [beat EXCEPT !.fired = @ \cup ((1 .. after) \ (1 .. before))]

HeartbeatInitialize ==
  /\ InitializeWebSocket
  /\ beat' = Started(heartbeats, heartbeats')
  /\ UNCHANGED <<session, hook, page, api, rooms>>

HeartbeatGetSocket ==
  /\ GetSocket
  /\ beat' = Started(heartbeats, heartbeats')
  /\ UNCHANGED <<session, hook, page, api, rooms>>

HeartbeatDisconnect ==
  /\ DisconnectWebSocket
  /\ UNCHANGED <<session, hook, page, beat, api, rooms>>

\* The callback pings the connection it was started with.
PingTargetOwn(k) == k

\* The callback reads the module variable when it runs: line 78.
PingTarget(k) == socket

\* Timer k fires: lines 77-81.
HeartbeatTick(k) ==
  LET s == PingTarget(k)
      live == s # 0 /\ sockets[s].status = "connected"
  IN /\ k \notin beat.fired
     /\ live => Len(wire[s]) < MaxPings
     /\ wire' = IF live THEN [wire EXCEPT ![s] = Append(@, Ping)] ELSE wire
     /\ beat' = [fired |-> beat.fired \cup {k},
                 pings |-> IF live THEN beat.pings + 1 ELSE beat.pings]
     /\ UNCHANGED <<socket, sockets, heartbeats, sessionId, returned, requests,
                    session, hook, page, api, rooms>>

\* The backend answers a ping with 'pong', which lines 83-85 only log.
ServerPong(s, i) ==
  /\ sockets[s].status = "connected"
  /\ IsPing(wire[s][i])
  /\ wire' = [wire EXCEPT ![s] = Remove(@, i)]
  /\ UNCHANGED <<socket, sockets, heartbeats, sessionId, returned, requests,
                 session, hook, page, beat, api, rooms>>

\* 30 s have passed since the window began: every timer has fired in it.
WindowEnd ==
  /\ heartbeats > 0
  /\ beat.fired = Timers
  /\ beat' = NoBeat
  /\ UNCHANGED <<service, sessionId, session, hook, page, api, rooms>>

NextHeartbeat ==
  \/ HeartbeatInitialize
  \/ HeartbeatGetSocket
  \/ HeartbeatDisconnect
  \/ \E s \in DOMAIN sockets : TransportConnect(s) /\ UNCHANGED others
  \/ \E s \in DOMAIN sockets : TransportDisconnect(s) /\ UNCHANGED others
  \/ \E k \in Timers : HeartbeatTick(k)
  \/ \E s \in DOMAIN sockets : \E i \in DOMAIN wire[s] : ServerPong(s, i)
  \/ WindowEnd

SpecHeartbeat == Init /\ [][NextHeartbeat]_vars

\* ================================================================ SpecApi
\* The axios instance of services/api.ts: what its two interceptors do to a
\* request on its way out and to a response on its way in.  api.sent is the
\* Authorization header of the last request (<<>>: none), api.outcome what
\* its caller's promise did, api.status the HTTP status of its response
\* (0: none, the request failed without one).
TokenPairs == {<<"acc-1", "ref-1">>, <<"acc-2", "ref-2">>}

Statuses == {0, 200, 201, 401, 403, 404, 500}

\* axios settles a response by its default validateStatus.
Succeeded(status) == status >= 200 /\ status < 300

\* `Bearer ${token}`
Bearer(token) == <<"Bearer", token>>

\* The request interceptor, lines 16-22.
OnRequest(a) ==
  [a EXCEPT !.sent = IF a.accessToken # "null" THEN Bearer(a.accessToken) ELSE <<>>,
            !.outcome = "pending",
            !.status = 0]

\* The response interceptor's success handler, line 28.
OnResponseData(a, status) ==
  [a EXCEPT !.outcome = "resolved", !.status = status]

\* Line 34 left out: a 401 removes the access token only.
OnResponseErrorKeepsRefresh(a, status) ==
  [a EXCEPT !.accessToken = IF status = 401 THEN "null" ELSE @,
            !.outcome = "rejected",
            !.status = status]

\* The response interceptor's error handler, lines 29-37.
OnResponseError(a, status) ==
  [a EXCEPT !.accessToken = IF status = 401 THEN "null" ELSE @,
            !.refreshToken = IF status = 401 THEN "null" ELSE @,
            !.outcome = "rejected",
            !.status = status]

rest == <<service, sessionId, session, hook, page, beat, rooms>>

\* A login stores both tokens: EventDetailsPage lines 341-342 and 364-365.
Login(pair) ==
  /\ api' = [api EXCEPT !.accessToken = pair[1], !.refreshToken = pair[2]]
  /\ UNCHANGED rest

\* The logout of EventDetailsPage lines 687-688.
Logout ==
  /\ api' = [api EXCEPT !.accessToken = "null", !.refreshToken = "null"]
  /\ UNCHANGED rest

\* The logout of app/admin/page.tsx line 135 removes the access token only.
AdminLogout ==
  /\ api' = [api EXCEPT !.accessToken = "null"]
  /\ UNCHANGED rest

ApiRequest ==
  /\ api.outcome # "pending"
  /\ api' = OnRequest(api)
  /\ UNCHANGED rest

\* A response, or the failure of the request without one, reaches the
\* response interceptor.
ApiResponse(status) ==
  /\ api.outcome = "pending"
  /\ api' = IF Succeeded(status) THEN OnResponseData(api, status)
                            ELSE OnResponseError(api, status)
  /\ UNCHANGED rest

NextApi ==
  \/ \E pair \in TokenPairs : Login(pair)
  \/ Logout
  \/ AdminLogout
  \/ ApiRequest
  \/ \E status \in Statuses : ApiResponse(status)

SpecApi == Init /\ [][NextApi]_vars

\* =============================================================== SpecPage
\* The four broadcast handlers of the hook (useEventWebSocket.ts lines
\* 102-127) with the callbacks EventDetailsPage passes to them (lines 96-143
\* and 151-156), applied to the page's state:
\*   eventId       the route parameter, which is also the hook's eventId
\*   event         the loaded event [id, seatMap], or NoEvent
\*   selected      the seat ids the user has selected
\*   hold          currentHoldId, currentHoldSeats, holdExpiresAt
\*   viewerCount   the hook's viewerCount
\*   lastCallback  the callback prop the hook invoked last
SeatStates == {"available", "held", "sold"}

\* The ids of the seats of the loaded seat map, in its order.
MapSeatIds == <<"A1", "A2">>

\* Seat ids a broadcast can name: the last is in no seat map of the page.
SeatIds == {"A1", "A2", "B7"}

SeatMaps ==
  {[i \in DOMAIN MapSeatIds |-> [id |-> MapSeatIds[i], status |-> st[i]]] :
     st \in [DOMAIN MapSeatIds -> SeatStates]}

Holds ==
  {NoHold} \cup {[id |-> "hold-1", seats |-> held, expiresAt |-> "12:00"] :
                   held \in {{"A1"}, {"A1", "A2"}}}

Find(updates, seatId) ==
  LET at == {i \in DOMAIN updates : updates[i].seatId = seatId}
  IN IF at = {} THEN "undefined" ELSE updates[SetMin(at)].status

\* filter in place of map: the seats the update does not name are dropped.
PageHandleSeatUpdateReplaces(p, update) ==
  IF p.event = NoEvent THEN p
  ELSE IF p.event.id # update.eventId THEN p
  ELSE [p EXCEPT !.event.seatMap =
          SelectSeq(p.event.seatMap,
                    LAMBDA seat : Find(update.updates, seat.id) # "undefined")]

\* handleSeatUpdate of the page, lines 96-112.
PageHandleSeatUpdate(p, update) ==
  IF p.event = NoEvent THEN p
  ELSE IF p.event.id # update.eventId THEN p
  ELSE LET seatMap == p.event.seatMap
       IN [p EXCEPT !.event.seatMap =
             [i \in DOMAIN seatMap |->
                IF Find(update.updates, seatMap[i].id) # "undefined"
                  THEN [seatMap[i] EXCEPT
                          !.status = Find(update.updates, seatMap[i].id)]
                  ELSE seatMap[i]]]

\* The setEvent updater of lines 118-129.
SeatMapAfterHoldExpired(event, data) ==
  IF event = NoEvent THEN event
  ELSE IF event.id # data.eventId THEN event
  ELSE LET seatMap == event.seatMap
       IN [event EXCEPT !.seatMap =
             [i \in DOMAIN seatMap |->
                IF seatMap[i].id \in data.seatIds /\ seatMap[i].status = "held"
                  THEN [seatMap[i] EXCEPT !.status = "available"]
                  ELSE seatMap[i]]]

\* handleHoldExpired of the page, lines 115-143.
PageHandleHoldExpired(p, data) ==
  [p EXCEPT !.event = SeatMapAfterHoldExpired(@, data),
            !.selected = @ \ data.seatIds,
            !.hold = IF data.eventId = p.eventId THEN NoHold ELSE @]

\* handleSeatUpdate of the hook, lines 102-106.
HandleSeatUpdate(p, update) ==
  IF update.eventId = p.eventId
    THEN PageHandleSeatUpdate([p EXCEPT !.lastCallback = "onSeatUpdate"], update)
    ELSE p

\* The test of line 109 left out: every hold_expired reaches the page.
HandleHoldExpiredUnfiltered(p, data) ==
  PageHandleHoldExpired([p EXCEPT !.lastCallback = "onHoldExpired"], data)

\* handleHoldExpired of the hook, lines 108-112.
HandleHoldExpired(p, data) ==
  IF data.eventId = p.eventId
    THEN PageHandleHoldExpired([p EXCEPT !.lastCallback = "onHoldExpired"], data)
    ELSE p

\* handleHoldExpiringSoon of the hook, lines 114-118: the page only logs.
HandleHoldExpiringSoon(p, data) ==
  IF data.eventId = p.eventId
    THEN [p EXCEPT !.lastCallback = "onHoldExpiringSoon"]
    ELSE p

\* handleViewersUpdate of the hook, lines 120-127: the page only logs.
HandleViewersUpdate(p, data) ==
  IF data.eventId = p.eventId
    THEN [p EXCEPT !.viewerCount = data.count,
                   !.lastCallback = "onViewersUpdate"]
    ELSE p

RECURSIVE SeqsUpTo(_, _)
SeqsUpTo(S, n) ==
  IF n = 0 THEN {<<>>}
  ELSE LET shorter == SeqsUpTo(S, n - 1)
       IN shorter \cup {Append(q, x) : q \in shorter, x \in S}

SeatUpdates == [seatId : SeatIds, status : SeatStates]

SeatAvailabilityUpdates ==
  [eventId : EventIds, updates : SeqsUpTo(SeatUpdates, MaxUpdates)]

HoldExpireds == [eventId : EventIds, seatIds : SUBSET SeatIds]

\* expiresAt and message are only logged.
HoldExpiringSoons == [eventId : EventIds, expiresAt : {"12:00"}]

ViewersUpdates == [eventId : EventIds, count : 0..MaxViewers]

frame == <<service, sessionId, session, hook, beat, api, rooms>>

SeatAvailabilityUpdate(update) ==
  /\ page' = HandleSeatUpdate(page, update)
  /\ UNCHANGED frame

HoldExpired(data) ==
  /\ page' = HandleHoldExpired(page, data)
  /\ UNCHANGED frame

HoldExpiringSoon(data) ==
  /\ page' = HandleHoldExpiringSoon(page, data)
  /\ UNCHANGED frame

ViewersUpdate(data) ==
  /\ page' = HandleViewersUpdate(page, data)
  /\ UNCHANGED frame

StatusOf(event, seatId) ==
  LET at == {i \in DOMAIN event.seatMap : event.seatMap[i].id = seatId}
  IN IF at = {} THEN "undefined" ELSE event.seatMap[SetMin(at)].status

\* The page is showing an event.  Its event is not loaded yet, or loaded, or
\* still the one of the previous route.  Either nothing is held (seats may
\* be selected once a seat map is shown: toggleSeat line 299), or the hold
\* that holdSeatsForUser recorded stands: the held seats are the selected
\* ones and the seat map shows them 'held' (lines 227-240).
InitPage ==
  /\ socket = 0
  /\ sockets = <<>>
  /\ wire = <<>>
  /\ heartbeats = 0
  /\ sessionId = <<>>
  /\ returned = [sock |-> 0, constructed |-> FALSE]
  /\ requests = <<>>
  /\ session = NoSession
  /\ hook = NoHook
  /\ beat = NoBeat
  /\ api = NoApi
  /\ rooms = NoRooms
  /\ \E e \in EventIds :
       \E ev \in {NoEvent} \cup [id : EventIds, seatMap : SeatMaps] :
         \E sel \in SUBSET {MapSeatIds[i] : i \in DOMAIN MapSeatIds} :
           \E h \in Holds :
             /\ ev = NoEvent => sel = {}
             /\ h # NoHold
                  => /\ h.seats = sel
                     /\ \A s \in sel : StatusOf(ev, s) = "held"
             /\ page = [NoPage EXCEPT !.eventId = e, !.event = ev,
                                      !.selected = sel, !.hold = h]

NextPage ==
  \/ \E update \in SeatAvailabilityUpdates : SeatAvailabilityUpdate(update)
  \/ \E data \in HoldExpireds : HoldExpired(data)
  \/ \E data \in HoldExpiringSoons : HoldExpiringSoon(data)
  \/ \E data \in ViewersUpdates : ViewersUpdate(data)

SpecPage == InitPage /\ [][NextPage]_vars

\* =============================================================== SpecHold
\* Selecting, holding, releasing and buying seats on EventDetailsPage.  The
\* page keeps, besides what the broadcasts act on:
\*   holdLoading      a seatApi.holdSeats call is awaited, for the seats holding
\*   releasing        a seatApi.releaseSeats call is awaited; released is the
\*                    currentHoldSeats its closure captured
\*   checkoutLoading  an order of handleCheckout is not completed yet
HoldIds == {"hold-1", "hold-2"}

\* seatMap.map(seat => seatIds.includes(seat.id) ? {...seat, status} : seat)
WithStatus(event, seatIds, status) ==
  IF event = NoEvent THEN event
  ELSE LET seatMap == event.seatMap
       IN [event EXCEPT !.seatMap =
             [i \in DOMAIN seatMap |->
                IF seatMap[i].id \in seatIds
                  THEN [seatMap[i] EXCEPT !.status = status]
                  ELSE seatMap[i]]]

\* toggleSeat, lines 286-309, up to the await of the request it makes.
ToggleSeatIn(p, seatId) ==
  LET next == IF seatId \in p.selected THEN p.selected \ {seatId}
                                       ELSE p.selected \cup {seatId}
  IN IF StatusOf(p.event, seatId) \in {"sold", "held"} \/ p.holdLoading THEN p
     ELSE IF next = {} /\ p.hold.id # "null"
       THEN [p EXCEPT !.selected = next,
                      !.releasing = TRUE, !.released = p.hold.seats]
     ELSE IF next # {} /\ p.eventId # "null"
       THEN [p EXCEPT !.selected = next,
                      !.holdLoading = TRUE, !.holding = next]
     ELSE [p EXCEPT !.selected = next]

\* A click on a seat of the seat map (line 576).  One release is awaited at
\* a time.
ToggleSeat(seatId) ==
  /\ ToggleSeatIn(page, seatId) # page
  /\ ~(page.releasing /\ ToggleSeatIn(page, seatId).releasing)
  /\ page' = ToggleSeatIn(page, seatId)
  /\ UNCHANGED frame

\* holdSeatsForUser after its await, lines 227-240 and 252.
HoldSucceeded(holdId) ==
  /\ page.holdLoading
  /\ page' = [page EXCEPT
       !.hold = [id |-> holdId, seats |-> page.holding, expiresAt |-> "12:00"],
       !.event = WithStatus(@, page.holding, "held"),
       !.holdLoading = FALSE, !.holding = {}]
  /\ UNCHANGED frame

\* holdSeatsForUser after its await, lines 243-252.
HoldFailed ==
  /\ page.holdLoading
  /\ page' = [page EXCEPT
       !.selected = {},
       !.hold = [@ EXCEPT !.seats = {}, !.id = "null"],
       !.holdLoading = FALSE, !.holding = {}]
  /\ UNCHANGED frame

\* releaseHeldSeats after its await, lines 264-279.
ReleaseSucceeded ==
  /\ page.releasing
  /\ page' = [page EXCEPT
       !.event = WithStatus(@, page.released, "available"),
       !.hold = NoHold,
       !.releasing = FALSE, !.released = {}]
  /\ UNCHANGED frame

\* releaseHeldSeats after its await, lines 280-282.
ReleaseFailed ==
  /\ page.releasing
  /\ page' = [page EXCEPT !.releasing = FALSE, !.released = {}]
  /\ UNCHANGED frame

\* handleCheckout up to its await, lines 380-401; the button that calls it
\* is disabled as line 674 says.
Checkout ==
  /\ page.eventId # "null" /\ page.selected # {}
  /\ ~page.holdLoading /\ ~page.checkoutLoading
  /\ page' = [page EXCEPT !.checkoutLoading = TRUE]
  /\ UNCHANGED frame

\* The order is finalized (lines 423-436) or paid (lines 803-814).
CheckoutCompleted ==
  /\ page.checkoutLoading
  /\ page' = [page EXCEPT
       !.selected = {},
       !.hold = [@ EXCEPT !.id = "null", !.expiresAt = "null"],
       !.checkoutLoading = FALSE]
  /\ UNCHANGED frame

\* Lines 438-443.
CheckoutFailed ==
  /\ page.checkoutLoading
  /\ page' = [page EXCEPT !.checkoutLoading = FALSE]
  /\ UNCHANGED frame

\* updateTimer finds the hold's time over, lines 465-485.
HoldTimerExpired ==
  /\ page.hold.expiresAt # "null"
  /\ page' = [page EXCEPT
       !.event = IF page.hold.seats # {}
                   THEN WithStatus(@, page.hold.seats, "available")
                   ELSE @,
       !.selected = {},
       !.hold = NoHold]
  /\ UNCHANGED frame

\* The page has loaded its event: nothing selected, nothing held.
InitHold ==
  /\ socket = 0
  /\ sockets = <<>>
  /\ wire = <<>>
  /\ heartbeats = 0
  /\ sessionId = <<>>
  /\ returned = [sock |-> 0, constructed |-> FALSE]
  /\ requests = <<>>
  /\ session = NoSession
  /\ hook = NoHook
  /\ beat = NoBeat
  /\ api = NoApi
  /\ rooms = NoRooms
  /\ \E e \in EventIds : \E seatMap \in SeatMaps :
       page = [NoPage EXCEPT !.eventId = e,
                             !.event = [id |-> e, seatMap |-> seatMap]]

NextHold ==
  \/ \E i \in DOMAIN MapSeatIds : ToggleSeat(MapSeatIds[i])
  \/ \E holdId \in HoldIds : HoldSucceeded(holdId)
  \/ HoldFailed
  \/ ReleaseSucceeded
  \/ ReleaseFailed
  \/ Checkout
  \/ CheckoutCompleted
  \/ CheckoutFailed
  \/ HoldTimerExpired
  \/ \E u \in SeatUpdates :
       SeatAvailabilityUpdate([eventId |-> page.eventId, updates |-> <<u>>])
  \/ \E seatIds \in SUBSET SeatIds :
       HoldExpired([eventId |-> page.eventId, seatIds |-> seatIds])

SpecHold == InitHold /\ [][NextHold]_vars

\* =================================================================== claims
Active(s) == sockets[s].status \in {"connecting", "connected"}

Connected(s) == sockets[s].status = "connected"

Pending(r) == requests[r].state = "pending"

\* C1: at most one connection constructed by the module is active
\* (constructed, not torn down, connected or still connecting) at any time.
C1_AtMostOneActiveConnection ==
  Cardinality({s \in DOMAIN sockets : Active(s)}) <= 1

\* C2: initializeWebSocket called while the singleton is connected returns
\* the singleton itself, constructs nothing and leaves the singleton alone.
C2_InitializeIdempotentWhileConnected ==
  [][(socket # 0 /\ Connected(socket) /\ InitializeWebSocket)
       => /\ returned'.sock = socket
          /\ ~returned'.constructed
          /\ socket' = socket
          /\ sockets' = sockets
          /\ heartbeats' = heartbeats]_vars

\* A second initializeWebSocket call has returned the connected singleton.
C2_Witness ==
  /\ socket # 0
  /\ Connected(socket)
  /\ returned.sock = socket
  /\ ~returned.constructed

\* C3: disconnectWebSocket tears the singleton's connection down and empties
\* the singleton, and does nothing when the singleton is empty; from the
\* empty singleton getSocket and initializeWebSocket construct a connection
\* that is none of the earlier ones.
C3_DisconnectClearsSingleton ==
  [][/\ (socket # 0 /\ DisconnectWebSocket)
          => /\ socket' = 0
             /\ sockets'[socket].status = "closed"
             /\ \A s \in DOMAIN sockets \ {socket} : sockets'[s] = sockets[s]
             /\ Len(sockets') = Len(sockets)
     /\ (socket = 0 /\ DisconnectWebSocket) => UNCHANGED vars
     /\ (socket = 0 /\ (InitializeWebSocket \/ GetSocket))
          => /\ socket' \notin DOMAIN sockets
             /\ socket' \in DOMAIN sockets'
             /\ sockets'[socket'] = NewSocket
             /\ \A s \in DOMAIN sockets : sockets'[s] = sockets[s]]_vars

\* A connection was torn down and a later one is the singleton.
C3_Witness ==
  /\ socket # 0
  /\ Active(socket)
  /\ \E s \in DOMAIN sockets : s < socket /\ sockets[s].status = "closed"

Settled(r) == requests[r].state # "pending"

TimeoutMessage(r) ==
  IF requests[r].kind = "join" THEN JoinTimeoutMessage ELSE SeatStatusTimeoutMessage

ListenersOf(r) == {cb \in sockets[requests[r].sock].callbacks : cb[2] = r}

AllListeners == UNION {sockets[s].callbacks : s \in DOMAIN sockets}

\* C4: the promise of a join or seat-status call settles exactly once: once
\* resolved or rejected it keeps its outcome whatever arrives later, it is
\* settled at the latest when its timer has fired, and each of its two
\* listeners runs at most once.
C4_SettlesExactlyOnce ==
  [][\A r \in DOMAIN requests :
       /\ Settled(r) => /\ requests'[r].state = requests[r].state
                        /\ requests'[r].value = requests[r].value
       /\ requests'[r].okRuns <= 1
       /\ requests'[r].errRuns <= 1
       /\ ~requests'[r].armed => requests'[r].state # "pending"]_vars

\* An error acknowledgment rejected a seat-status call and its timer fired
\* afterwards.
C4_Witness ==
  \E r \in DOMAIN requests :
    /\ requests[r].kind = "status"
    /\ requests[r].state = "rejected"
    /\ requests[r].value \in ServerMessages
    /\ requests[r].errRuns = 1
    /\ ~requests[r].armed

\* C5: a seat-status request is resolved only by a seat_status_response of
\* its own event: what it resolves with are the seats of the requested event.
C5_ResolvedByMatchingResponseOnly ==
  \A r \in DOMAIN requests :
    (requests[r].kind = "status" /\ requests[r].state = "resolved")
      => requests[r].value = requests[r].eventId

\* C6: a join and a seat-status query pending together settle independently:
\* no single acknowledgment, error or timeout settles both.
C6_SettleIndependently ==
  [][\A j, q \in DOMAIN requests :
       (/\ requests[j].kind = "join"
        /\ requests[q].kind = "status"
        /\ Pending(j)
        /\ Pending(q))
         => (requests'[j].state = "pending" \/ requests'[q].state = "pending")]_vars

\* C7: an error acknowledgment that arrives on a connection rejects every
\* call pending on it with the server's message and removes both listeners
\* of the call.
C7_ErrorRejectsWithServerMessage ==
  [][\A s \in DOMAIN sockets : \A m \in ServerMessages :
       (\E i \in DOMAIN wire[s] : ServerError(s, i, m))
         => \A r \in DOMAIN requests :
              (requests[r].sock = s /\ Pending(r))
                => /\ requests'[r].state = "rejected"
                   /\ requests'[r].value = m
                   /\ requests'[r].errRuns = 1
                   /\ \A cb \in sockets'[s].callbacks : cb[2] # r]_vars

\* A join was rejected by an error acknowledgment.
C7_Witness ==
  \E r \in DOMAIN requests :
    /\ requests[r].kind = "join"
    /\ requests[r].state = "rejected"
    /\ requests[r].value \in ServerMessages
    /\ requests[r].errRuns = 1
    /\ ListenersOf(r) = {}

\* C8: a call that no acknowledgment settles stays pending until its own
\* timer fires, 5000 ms after a join and 10000 ms after a query, and is
\* rejected in that step with its fixed timeout message: never with a
\* timeout earlier, never pending later.
C8_TimeoutExactlyAtDeadline ==
  [][\A r \in DOMAIN requests :
       LET deadline == IF requests[r].kind = "join" THEN JoinTimeoutMs
                                                    ELSE SeatStatusTimeoutMs
       IN /\ (Pending(r) /\ requests'[r].state # "pending"
                /\ requests'[r].okRuns = 0 /\ requests'[r].errRuns = 0)
              => /\ requests[r].armed
                 /\ ~requests'[r].armed
                 /\ requests[r].elapsed = deadline
                 /\ requests'[r].state = "rejected"
                 /\ requests'[r].value = TimeoutMessage(r)
          /\ (Pending(r) /\ ~requests'[r].armed)
              => /\ requests'[r].state = "rejected"
                 /\ requests'[r].value = TimeoutMessage(r)
          /\ requests'[r].state = "pending"
              => requests'[r].armed /\ requests'[r].elapsed <= deadline
          /\ (requests'[r].state = "rejected" /\ requests'[r].value = TimeoutMessage(r))
              => ~requests'[r].armed /\ requests'[r].elapsed = deadline]_vars

\* A seat-status query timed out 10000 ms after the call.
C8_Witness ==
  \E r \in DOMAIN requests :
    /\ requests[r].kind = "status"
    /\ requests[r].state = "rejected"
    /\ requests[r].value = SeatStatusTimeoutMessage
    /\ requests[r].elapsed = SeatStatusTimeoutMs
    /\ requests[r].okRuns = 0
    /\ requests[r].errRuns = 0

\* C9: the timer of a call that its response already resolved changes
\* nothing when it fires: not the outcome of any promise, not a listener of
\* any connection.
C9_LateTimeoutIsNoOp ==
  [][\A r \in DOMAIN requests :
       (requests[r].state = "resolved" /\ TimerFire(r))
         => /\ \A s \in DOMAIN sockets : sockets'[s].callbacks = sockets[s].callbacks
            /\ \A q \in DOMAIN requests :
                 /\ requests'[q].state = requests[q].state
                 /\ requests'[q].value = requests[q].value]_vars

\* The timer of a resolved call has fired while another call is pending on
\* the same connection with its listeners registered.
C9_Witness ==
  \E r, q \in DOMAIN requests :
    /\ requests[r].state = "resolved"
    /\ ~requests[r].armed
    /\ Pending(q)
    /\ requests[q].sock = requests[r].sock
    /\ Cardinality(ListenersOf(q)) = 2

\* C10: a settled call has no listener left on its connection, so the
\* registered request listeners never exceed two per pending call.
C10_NoListenerOfSettledCall ==
  /\ \A r \in DOMAIN requests : Settled(r) => ListenersOf(r) = {}
  /\ \A s \in DOMAIN sockets :
       \A cb \in sockets[s].callbacks :
         cb[2] \in DOMAIN requests /\ requests[cb[2]].sock = s
  /\ Cardinality(AllListeners)
       <= 2 * Cardinality({r \in DOMAIN requests : Pending(r)})

\* One call is settled, another still has its two listeners registered.
C10_Witness ==
  /\ \E r \in DOMAIN requests : Settled(r) /\ requests[r].okRuns = 1
  /\ Cardinality(AllListeners) = 2

JoinMessage(e) == [type |-> "join_event", eventId |-> e]

\* C11: joinEventRoom called while no connection is connected queues its
\* join_event on the connection it got; the connect of that connection hands
\* every queued request to the backend in order; and a joined_event that
\* arrives while the join is still pending (its 5000 ms timer, armed at the
\* call, has not fired) resolves it.
C11_QueuedJoinSucceeds ==
  [][/\ \A e \in EventIds :
          (NoUsableSocket /\ JoinEventRoom(e))
            => /\ sockets'[socket'].status = "connecting"
               /\ sockets'[socket'].sendBuffer # <<>>
               /\ sockets'[socket'].sendBuffer[Len(sockets'[socket'].sendBuffer)]
                    = JoinMessage(e)
               /\ requests'[Len(requests')].sock = socket'
               /\ requests'[Len(requests')].state = "pending"
               /\ requests'[Len(requests')].elapsed = 0
     /\ \A s \in DOMAIN sockets :
          TransportConnect(s)
            => /\ wire'[s] = wire[s] \o SelectSeq(sockets[s].sendBuffer, IsRequest)
               /\ sockets'[s].sendBuffer = <<>>
               /\ sockets'[s].status = "connected"
     /\ \A s \in DOMAIN sockets : \A i \in DOMAIN wire[s] :
          (wire[s][i].type = "join_event" /\ ServerAck(s, i))
            => \A r \in DOMAIN requests :
                 (requests[r].kind = "join" /\ requests[r].sock = s /\ Pending(r))
                   => /\ requests'[r].state = "resolved"
                      /\ requests[r].elapsed <= JoinTimeoutMs]_vars

\* A join made before its connection connected is pending with its
\* join_event queued on that connection, part of the 5000 ms already gone.
C11_Witness ==
  \E r \in DOMAIN requests :
    /\ requests[r].kind = "join"
    /\ Pending(r)
    /\ sockets[requests[r].sock].status = "connecting"
    /\ JoinMessage(requests[r].eventId)
         \in {sockets[requests[r].sock].sendBuffer[i] :
                i \in DOMAIN sockets[requests[r].sock].sendBuffer}
    /\ requests[r].elapsed > 0

\* C12 as stated: getSessionId returns the stored entry and leaves storage
\* alone while the entry exists, writes storage only when the entry is
\* absent, and after the entry was cleared the next call returns a value
\* different from the one cleared.
C12_StableUntilClearedThenDifferent ==
  [][GetSessionIdCall
       => /\ sessionId # <<>>
               => /\ session'.returned = sessionId
                  /\ sessionId' = sessionId
          /\ sessionId = <<>>
               => /\ sessionId' # <<>>
                  /\ session'.returned = sessionId'
          /\ (sessionId = <<>> /\ session.previous # <<>>)
               => session'.returned # session.previous]_vars

\* C12, amended: as above, but the value generated after a clear is the one
\* built from the clock reading and the random suffix of the call, so it
\* differs from the cleared one when the millisecond or the suffix differs
\* from those the cleared value was built from.
C12_StableUntilClearedThenRegenerated ==
  [][GetSessionIdCall
       => /\ sessionId # <<>>
               => /\ session'.returned = sessionId
                  /\ sessionId' = sessionId
          /\ sessionId = <<>>
               => /\ sessionId' = GenerateSessionId(session.now, session.suffix)
                  /\ session'.returned = sessionId'
          /\ (/\ sessionId = <<>>
              /\ session.previous # <<>>
              /\ \/ session.previous[2] # session.now
                 \/ session.previous[3] # session.suffix)
               => session'.returned # session.previous]_vars

\* After a clear, a call generated a value other than the cleared one, and a
\* later call returned that stored value again although the clock and the
\* suffix have moved on.
C12_Witness ==
  /\ session.previous # <<>>
  /\ sessionId # <<>>
  /\ sessionId # session.previous
  /\ session.returned = sessionId
  /\ sessionId # GenerateSessionId(session.now, session.suffix)
  /\ sessionId[2] < session.now

\* C13: within one mount and for one eventId, the hook emits at most one
\* join_event in each cycle of its has-joined guard (from the mount, the
\* change to that eventId or the last disconnect or leave, up to the next
\* disconnect or leave).
C13_AtMostOneJoinPerGuardCycle == hook.mounted => hook.cycleJoins <= 1

AutoJoining == hook.mounted /\ hook.autoJoin /\ hook.eventId # "null"

\* C14: while the hook is mounted with autoJoin and an eventId, the
\* transport disconnect of the connection that carries its room membership
\* clears the has-joined guard, and a connect signal that finds the guard
\* clear makes the hook emit a new join_event for its eventId.
C14_ReconnectRejoins ==
  [][\A s \in DOMAIN sockets :
       /\ (AutoJoining /\ hook.hasJoined /\ hook.joinedOn = s /\ HookDisconnect(s))
            => ~hook'.hasJoined
       /\ (AutoJoining /\ ~hook.hasJoined /\ hook.socket = s /\ HookConnect(s))
            => /\ Len(requests') = Len(requests) + 1
               /\ requests'[Len(requests')].kind = "join"
               /\ requests'[Len(requests')].eventId = hook.eventId]_vars

LeavesAfterCleanup ==
  IF CanLeave(hook) THEN Append(hook.leaves, hook.eventId) ELSE hook.leaves

\* C15: on unmount and on a change of eventId the hook's listeners leave the
\* connection they were on; if the guard says joined, exactly one leave_event
\* for the old eventId is emitted and the guard is cleared; if not, none is
\* emitted; and nothing that happens after the unmount changes the hook.
C15_CleanupRemovesListenersAndLeaves ==
  [][/\ Unmount
          => /\ hook'.socket = 0
             /\ ~hook'.hasJoined
             /\ hook'.leaves = LeavesAfterCleanup
     /\ \A e \in EventIdOrNull :
          ChangeEventId(e)
            => /\ hook'.eventId = e
               /\ hook'.socket = socket'
               /\ ~hook'.hasJoined
               /\ hook'.leaves = LeavesAfterCleanup
               /\ \A r \in hook'.joins \ hook.joins : requests'[r].eventId = e
     /\ (~hook.mounted /\ ~hook'.mounted) => hook' = hook]_vars

FailedJoins == {r \in hook.joins : requests[r].state = "rejected"}

\* C20: a join of the hook that fails (error acknowledgment or timeout)
\* leaves the guard as it was, and after it the hook emits a join_event only
\* on a connect signal or an explicit joinRoom call: a re-render of the
\* owning component emits none.
C20_NoJoinRetryOnRerender ==
  [][/\ \A r \in hook.joins :
          (Pending(r) /\ requests'[r].state = "rejected")
            => hook'.hasJoined = hook.hasJoined
     /\ (FailedJoins # {} /\ ~hook.hasJoined /\ Rerender)
          => Len(requests') = Len(requests)]_vars

\* C16: a seat_availability_update, hold_expired, hold_expiring_soon or
\* viewers_update of another event than the one the page shows invokes no
\* callback of the page and leaves the seat map, the selection, the hold and
\* the viewer count as they are.
C16_OtherEventBroadcastIgnored ==
  /\ \A update \in SeatAvailabilityUpdates :
       update.eventId # page.eventId => HandleSeatUpdate(page, update) = page
  /\ \A data \in HoldExpireds :
       data.eventId # page.eventId => HandleHoldExpired(page, data) = page
  /\ \A data \in HoldExpiringSoons :
       data.eventId # page.eventId => HandleHoldExpiringSoon(page, data) = page
  /\ \A data \in ViewersUpdates :
       data.eventId # page.eventId => HandleViewersUpdate(page, data) = page

\* Broadcasts have been handled on a page that still shows the seat map of
\* the other event, with a seat of it selected and held.
C16_Witness ==
  /\ page.lastCallback = "onHoldExpiringSoon"
  /\ page.event # NoEvent
  /\ page.event.id # page.eventId
  /\ page.selected # {}
  /\ page.hold # NoHold
  /\ \E i \in DOMAIN page.event.seatMap : page.event.seatMap[i].status = "held"

\* The page shows the seat map of the event it is scoped to.
Loaded == page.event # NoEvent /\ page.event.id = page.eventId

Listed(seatIds) ==
  {i \in DOMAIN page.event.seatMap : page.event.seatMap[i].id \in seatIds}

\* C17: a hold_expired of the page's event sets every listed seat of the
\* seat map to 'available', whatever its status was, and removes every
\* listed seat id from the selection.
C17_HoldExpiredFreesEveryListedSeat ==
  \A data \in HoldExpireds :
    (Loaded /\ data.eventId = page.eventId)
      => LET after == HandleHoldExpired(page, data)
         IN /\ \A i \in Listed(data.seatIds) :
                 after.event.seatMap[i].status = "available"
            /\ after.selected \cap data.seatIds = {}

\* C18: a hold_expired of the page's event takes out of the selection and of
\* the hold only the seat ids it lists: the other selected seats stay
\* selected, the other held seats stay held, and the hold is untouched when
\* none of its seats is listed.
C18_HoldExpiredClearsOnlyListedSeats ==
  \A data \in HoldExpireds :
    data.eventId = page.eventId
      => LET after == HandleHoldExpired(page, data)
         IN /\ after.selected = page.selected \ data.seatIds
            /\ page.hold.seats \ data.seatIds \subseteq after.hold.seats
            /\ page.hold.seats \cap data.seatIds = {} => after.hold = page.hold

\* C19: a seat_availability_update of the page's event gives every seat of
\* the seat map whose id the updates name the status of the (first) update
\* for that id, leaves every other seat as it is, keeps the seat ids and
\* their order, and changes nothing else of the page.
C19_SeatUpdateMergesStatusById ==
  \A update \in SeatAvailabilityUpdates :
    (Loaded /\ update.eventId = page.eventId)
      => LET after == HandleSeatUpdate(page, update)
             before == page.event.seatMap
             named(i) == {k \in DOMAIN update.updates :
                            update.updates[k].seatId = before[i].id}
         IN /\ DOMAIN after.event.seatMap = DOMAIN before
            /\ \A i \in DOMAIN before :
                 /\ after.event.seatMap[i].id = before[i].id
                 /\ after.event.seatMap[i].status =
                      IF named(i) = {} THEN before[i].status
                      ELSE update.updates[SetMin(named(i))].status
            /\ after.selected = page.selected
            /\ after.hold = page.hold
            /\ after.viewerCount = page.viewerCount

\* An update of the page's event has been merged into its seat map, which
\* now shows seats in different states.
C19_Witness ==
  /\ Loaded
  /\ page.lastCallback = "onSeatUpdate"
  /\ page.event.seatMap[1].status = "sold"
  /\ page.event.seatMap[2].status = "available"
  /\ page.selected # {}
\* C21: getSeatStatus of the hook never rejects.  A call made with a null
\* eventId has resolved with the empty list and made no request; any other
\* call is pending while its request is pending, resolved with the response's
\* seat list once the request resolved, and resolved with the empty list
\* once the request was rejected by an error or by the timeout.
C21_GetSeatStatusNeverRejects ==
  /\ \A k \in DOMAIN hook.queries :
       LET q == hook.queries[k]
       IN /\ q.state # "rejected"
          /\ q.eventId = "null" <=> q.request = 0
          /\ q.request = 0 => q.state = "resolved" /\ q.value = EmptySeats
          /\ q.request # 0 =>
               LET req == requests[q.request]
               IN /\ req.kind = "status" /\ req.eventId = q.eventId
                  /\ req.state = "pending" => q.state = "pending"
                  /\ req.state = "resolved" =>
                       q.state = "resolved" /\ q.value = req.value
                  /\ req.state = "rejected" =>
                       q.state = "resolved" /\ q.value = EmptySeats
  /\ Cardinality({r \in DOMAIN requests : requests[r].kind = "status"})
       = Cardinality({k \in DOMAIN hook.queries : hook.queries[k].request # 0})

\* One call answered with seats, one answered with [] after its request
\* was rejected.
C21_Witness ==
  \E j, k \in DOMAIN hook.queries :
    /\ hook.queries[j].request # 0 /\ hook.queries[k].request # 0
    /\ requests[hook.queries[j].request].state = "resolved"
    /\ hook.queries[j].value # EmptySeats
    /\ requests[hook.queries[k].request].state = "rejected"
    /\ hook.queries[k].state = "resolved"

PingsOn(wr, s) == Len(SelectSeq(wr[s], IsPing))

\* C22: a step emits a 'ping' on a connection only if that connection is the
\* current singleton and is connected; a step taken while the singleton is
\* null (never set, or cleared by disconnectWebSocket) or not connected
\* emits no ping.
C22_PingOnlyOnConnectedSingleton ==
  [][\A s \in DOMAIN sockets :
       PingsOn(wire', s) > PingsOn(wire, s)
         => /\ socket = s
            /\ sockets[s].status = "connected"
            /\ wire' = [wire EXCEPT ![s] = Append(@, Ping)]]_vars

\* Two connections are connected, the older one is no longer the singleton,
\* and a ping was sent in this window.
C22_Witness ==
  /\ socket # 0
  /\ \E s \in DOMAIN sockets : s # socket /\ sockets[s].status = "connected"
  /\ sockets[socket].status = "connected"
  /\ PingsOn(wire, socket) > 0
  /\ beat.pings > 0

\* C28: at most one heartbeat timer is running, at most one ping is emitted
\* in a 30 s window, and no timer is running whose connection was torn down.
C28_OneHeartbeatTimerPerLiveConnection ==
  /\ heartbeats <= 1
  /\ beat.pings <= 1
  /\ \A k \in Timers : sockets[k].status # "closed"

\* C23: a response with status 401 removes both stored tokens and rejects
\* the caller; a failure with any other status, or with none, rejects the
\* caller and leaves both tokens as they were; a request sent while an
\* accessToken is stored carries "Bearer <that token>".
C23_UnauthorizedClearsTokensAndRejects ==
  [][/\ api.outcome = "pending" /\ api'.outcome # "pending" /\ api'.status = 401
        => /\ api'.accessToken = "null" /\ api'.refreshToken = "null"
           /\ api'.outcome = "rejected"
     /\ api.outcome = "pending" /\ api'.outcome # "pending"
          /\ ~Succeeded(api'.status) /\ api'.status # 401
        => /\ api'.accessToken = api.accessToken
           /\ api'.refreshToken = api.refreshToken
           /\ api'.outcome = "rejected"
     /\ api.outcome # "pending" /\ api'.outcome = "pending"
          /\ api.accessToken # "null"
        => api'.sent = Bearer(api.accessToken)]_vars

\* A request that carried a token was answered 401 and rejected, and no
\* token is stored.
C23_Witness ==
  /\ api.status = 401
  /\ api.outcome = "rejected"
  /\ api.sent # <<>>
  /\ api.accessToken = "null" /\ api.refreshToken = "null"

\* C24: a step resolves at most one pending joinEventRoom call, and the call
\* it resolves is one whose join_event for the same event, on the same
\* connection, the backend acknowledged in that step.
C24_AckResolvesOnlyItsOwnJoin ==
  [][LET done == {r \in DOMAIN requests :
                    /\ requests[r].kind = "join"
                    /\ requests[r].state = "pending"
                    /\ requests'[r].state = "resolved"}
     IN /\ Cardinality(done) <= 1
        /\ \A r \in done :
             \E i \in DOMAIN wire[requests[r].sock] :
               /\ wire[requests[r].sock][i] = JoinMessage(requests[r].eventId)
               /\ wire' = [wire EXCEPT ![requests[r].sock] = Remove(@, i)]]_vars

\* C26: while the guard says joined, a step of the mounted hook emits
\* leave_event only if it unmounts the hook, changes its eventId or is a
\* leaveRoom call; and a re-render with new callback identities emits no
\* leave_event and makes no new join.
C26_LeaveOnlyOnUnmountSwitchOrLeaveRoom ==
  [][/\ hook.mounted /\ hook.hasJoined /\ hook'.leaves # hook.leaves
        => \/ ~hook'.mounted
           \/ hook'.eventId # hook.eventId
           \/ LeaveRoom
     /\ Rerender /\ hook.hasJoined
        => /\ hook'.leaves = hook.leaves
           /\ Len(requests') = Len(requests)]_vars

\* C27: while the hook is mounted, the connection its effect registered the
\* listeners on is the module's singleton.
C27_HookListensOnSingleton ==
  hook.mounted => hook.socket = socket

\* C25: every membership the backend holds for a join_event of the hook,
\* whenever its acknowledgment arrived, is followed by a leave_event for the
\* same event once the hook is unmounted or has another eventId.
C25_NoRoomMembershipLeaked ==
  \A r \in rooms.acked :
    ~hook.mounted \/ hook.eventId # requests[r].eventId
      => \E k \in DOMAIN rooms.leaves :
           /\ rooms.leaves[k].eventId = requests[r].eventId
           /\ rooms.leaves[k].after >= r

\* C29: with no hold, release or checkout request in flight, currentHoldId
\* is null exactly when currentHoldSeats is empty and exactly when
\* holdExpiresAt is null.
C29_HoldRecordConsistent ==
  ~page.holdLoading /\ ~page.releasing /\ ~page.checkoutLoading
    => /\ page.hold.id = "null" <=> page.hold.seats = {}
       /\ page.hold.id = "null" <=> page.hold.expiresAt = "null"

\* C30: a seat of the user's hold (selected, shown 'held', in the hold that
\* succeeded) leaves the selection when it is toggled, and if that empties
\* the selection a release of the hold is requested.
C30_HeldSeatCanBeDeselected ==
  \A i \in DOMAIN MapSeatIds :
    LET s == MapSeatIds[i]
        after == ToggleSeatIn(page, s)
    IN /\ s \in page.selected
       /\ StatusOf(page.event, s) = "held"
       /\ page.hold.id # "null" /\ s \in page.hold.seats
       /\ ~page.holdLoading
       => /\ s \notin after.selected
          /\ after.selected = {} => after.releasing

====
